---- MODULE Spec2Model ----
(***************************************************************************)
(* DreamStream: the application state machine of App (step, analysis,      *)
(* imageUrl, imageSize, isProcessing, error), the AudioRecorder component  *)
(* (startRecording / stopRecording / onstop, its refs and the microphone   *)
(* streams it acquires), the ChatInterface of the result view (messages,   *)
(* input, isLoading, its chat session and the sendMessage calls it makes)  *)
(* and the analysis, image and chat clients of geminiService.              *)
(*                                                                         *)
(* Every call of startRecording is one "attempt": a record that follows    *)
(* the call from the pending getUserMedia through the MediaRecorder to the *)
(* handleRecordingComplete pipeline its stop event starts.  Closures keep  *)
(* running after the component that created them is unmounted, so attempts *)
(* carry the identity of their component instance and the values their     *)
(* closure captured.                                                       *)
(***************************************************************************)
EXTENDS Integers, Sequences, FiniteSets, TLC

\* ---------------------------------------------------------------- bounds
MaxAttempts == 2
MaxSelect == 1
MaxTurns == 2

\* dataavailable events of one MediaRecorder
MaxChunks == 2

\* ---------------------------------------------------------------- values
ImageSizes == {"1K", "2K", "4K"}

Steps == {"idle", "recording", "analyzing", "generating_image", "complete"}

Fields == {"transcription", "interpretation", "visualPrompt", "emotionalTheme"}

Contents == {"a", "b"}

ImageData == {"A", "B"}

StringOf(f, c) == <<f, c>>

EmptyProps == [f \in {} |-> <<>>]

\* JavaScript values an analysis can be: null or an object with some props
Null == [kind |-> "null", props |-> EmptyProps]

Obj(p) == [kind |-> "object", props |-> p]

FullProps(c) == [f \in Fields |-> StringOf(f, c)]

NoUrl == <<>>

NoError == "<null>"

NoBlob == <<>>

DefaultErrorMessage == "Failed to process dream. Please try again."

NoResponseMessage == "No response from Gemini"

NoImageMessage == "No image generated"

SyntaxErrorMessage == "Unexpected token in JSON"

TypeErrorMessage == "Cannot read properties of null"

\* reasons a promise of the service rejects with: an Error with a message,
\* or a value without one (the FileReader error event of blobToBase64)
Rejections == { [message |-> ""], [message |-> "Network error"] }

\* response.text of the analysis call: absent/empty, or a text that is or is
\* not well-formed JSON; a well-formed one is the literal null or an object
\* written as a sequence of "key": "string" members
NoText == [empty |-> TRUE, wellFormed |-> FALSE, isNull |-> FALSE,
           members |-> <<>>]

Garbage == [empty |-> FALSE, wellFormed |-> FALSE, isNull |-> FALSE,
            members |-> <<>>]

NullText == [empty |-> FALSE, wellFormed |-> TRUE, isNull |-> TRUE,
             members |-> <<>>]

ObjectText(ms) == [empty |-> FALSE, wellFormed |-> TRUE, isNull |-> FALSE,
                   members |-> ms]

Member(f, c) == [key |-> f, str |-> StringOf(f, c)]

\* the four members in the order of the responseSchema
FullText(c) ==
    ObjectText(<<Member("transcription", c), Member("interpretation", c),
                 Member("visualPrompt", c), Member("emotionalTheme", c)>>)

\* an object the schema does not describe: no visualPrompt
PartialText(c) ==
    ObjectText(<<Member("transcription", c), Member("interpretation", c),
                 Member("emotionalTheme", c)>>)

ResponseTexts ==
    {NoText, Garbage, NullText}
        \cup { FullText(c) : c \in Contents }
        \cup { PartialText(c) : c \in {"a"} }

\* a content part of the image response: text only, or an inline payload
TextPart == [inline |-> FALSE, data |-> ""]

InlinePart(d) == [inline |-> TRUE, data |-> d]

\* response.candidates?.[0]?.content?.parts || []
ImageResponses ==
    { <<>>, <<TextPart>>, <<InlinePart("B")>>, <<TextPart, InlinePart("A")>>,
      <<InlinePart("A"), InlinePart("B")>> }

\* the handler that ran last consumed no response of the service
NoInput == [kind |-> "none", response |-> <<>>]

NoOutput == [kind |-> "none", result |-> <<>>]

\* ---------------------------------------------------------------- state
VARIABLES
    apiKeyReady,     \* App: useState apiKeyReady
    keyCheck,        \* App: the checkKey call of the mount effect
    selectPending,   \* App: handleApiKeySelection calls awaiting selectApiKey
    state,           \* App: useState DreamState
    inst,            \* identity of the mounted (or next) AudioRecorder
    isRecording,     \* AudioRecorder: useState isRecording
    permissionError, \* AudioRecorder: useState permissionError
    att,             \* the startRecording calls made so far
    env,             \* the browser: secure context / mediaDevices support
    chat,            \* ChatInterface: chatSessionRef and its useState values
    turns,           \* the sendMessage calls made so far
    hist             \* history: what has happened so far

vars == <<apiKeyReady, keyCheck, selectPending, state, inst, isRecording,
          permissionError, att, env, chat, turns, hist>>

chatVars == <<chat, turns>>

appVars == <<apiKeyReady, keyCheck, selectPending, state>>

recVars == <<inst, isRecording, permissionError>>

\* a ChatInterface as mounted: initial useState values, and the session its
\* effect creates and stores in chatSessionRef
NewChat(session) ==
    [session |-> session, messages |-> <<>>, input |-> <<>>,
     isLoading |-> FALSE]

InitialState ==
    [audioBlob |-> NoBlob, analysis |-> Null, imageUrl |-> NoUrl,
     imageSize |-> "1K", isProcessing |-> FALSE, isRecording |-> FALSE,
     step |-> "idle", error |-> NoError]

Init ==
    /\ apiKeyReady = FALSE
    /\ keyCheck = "pending"
    /\ selectPending = 0
    /\ state = InitialState
    /\ inst = 1
    /\ isRecording = FALSE
    /\ permissionError = FALSE
    /\ att = <<>>
    /\ env \in {"ok", "insecure", "unsupported"}
    /\ chat = NewChat(1)
    /\ turns = <<>>
    /\ hist = [leftIdleViaAnalyzing |-> FALSE, analysisSucceeded |-> FALSE,
               last |-> "init", from |-> "idle", input |-> NoInput,
               output |-> NoOutput]

Attempts == 1..Len(att)

\* history: the handler that ran last, the step it found, and (set by the
\* handler itself) the response of the service it consumed and what the
\* client function made of it
Note(h, op) ==
    [h EXCEPT !.last = op, !.from = state.step, !.input = NoInput,
              !.output = NoOutput]

Consumed(h, kind, in, out) ==
    [h EXCEPT !.input = [kind |-> kind, response |-> in],
              !.output = [kind |-> kind, result |-> out]]

\* the recorder is rendered iff the key gate is passed and step is idle
Mounted(ready, st) == ready /\ st.step = "idle"

\* DreamResult, and the ChatInterface in it, is rendered iff the key gate is
\* passed, step is complete and analysis and imageUrl are truthy
ChatMounted(ready, st) ==
    /\ ready
    /\ st.step = "complete"
    /\ st.analysis # Null
    /\ st.imageUrl # NoUrl

Turns == 1..Len(turns)

\* a session no sendMessage call has used yet
FreshSession ==
    IF \E t \in Turns : turns[t].session = chat.session
    THEN chat.session + 1 ELSE chat.session

\* the ChatInterface after the App re-rendered with (ready, st): kept while
\* it stays rendered (its effect replaces the session, and nothing else, when
\* the analysis prop changed), a fresh one when it is rendered again
RerenderChat(ready, st) ==
    IF ChatMounted(ready, st)
    THEN IF ChatMounted(apiKeyReady, state)
         THEN chat' = IF st.analysis = state.analysis THEN chat
                      ELSE [chat EXCEPT !.session = FreshSession]
         ELSE chat' = NewChat(FreshSession)
    ELSE chat' = NewChat(chat.session)

\* the AudioRecorder instance after the App re-rendered with (ready, st):
\* kept while it stays rendered, a fresh one (initial useState values, fresh
\* refs) when it is rendered again after having been removed
RerenderRecorder(ready, st) ==
    IF Mounted(ready, st)
    THEN IF Mounted(apiKeyReady, state)
         THEN UNCHANGED recVars
         ELSE /\ inst' = IF \E k \in Attempts : att[k].inst = inst
                         THEN inst + 1 ELSE inst
              /\ isRecording' = FALSE
              /\ permissionError' = FALSE
    ELSE /\ inst' = inst
         /\ isRecording' = FALSE
         /\ permissionError' = FALSE

Rerender(ready, st) == RerenderRecorder(ready, st) /\ RerenderChat(ready, st)

\* ------------------------------------------------------- credential gate
CheckKeySettles ==
    /\ keyCheck = "pending"
    /\ keyCheck' = "done"
    /\ \E ready \in BOOLEAN :
          /\ apiKeyReady' = ready
          /\ Rerender(ready, state)
    /\ hist' = Note(hist, "check_key")
    /\ UNCHANGED <<selectPending, state, att, env, turns>>

CheckKeyRejects ==
    /\ keyCheck = "pending"
    /\ keyCheck' = "done"
    /\ hist' = Note(hist, "check_key_rejected")
    /\ UNCHANGED <<apiKeyReady, selectPending, state, recVars, att, env, chatVars>>

HandleApiKeySelection ==
    /\ ~apiKeyReady
    /\ selectPending < MaxSelect
    /\ selectPending' = selectPending + 1
    /\ hist' = Note(hist, "select_key")
    /\ UNCHANGED <<apiKeyReady, keyCheck, state, recVars, att, env, chatVars>>

SelectKeyResolves ==
    /\ selectPending > 0
    /\ selectPending' = selectPending - 1
    /\ apiKeyReady' = TRUE
    /\ Rerender(TRUE, state)
    /\ hist' = Note(hist, "select_key_ok")
    /\ UNCHANGED <<keyCheck, state, att, env, turns>>

\* a catch block that lets the user in all the same
SelectKeyRejects_setsReady ==
    /\ selectPending > 0
    /\ selectPending' = selectPending - 1
    /\ apiKeyReady' = TRUE
    /\ Rerender(TRUE, state)
    /\ hist' = Note(hist, "select_key_rejected")
    /\ UNCHANGED <<keyCheck, state, att, env, turns>>

SelectKeyRejects ==
    /\ selectPending > 0
    /\ selectPending' = selectPending - 1
    /\ hist' = Note(hist, "select_key_rejected")
    /\ UNCHANGED <<apiKeyReady, keyCheck, state, recVars, att, env, chatVars>>

\* ------------------------------------------------------------- App state
\* reset that forgets the chosen resolution
reset_forgetsImageSize(st) ==
    [audioBlob |-> NoBlob, analysis |-> Null, imageUrl |-> NoUrl,
     imageSize |-> "1K", isProcessing |-> FALSE,
     isRecording |-> FALSE, step |-> "idle", error |-> NoError]

reset(st) ==
    [audioBlob |-> NoBlob, analysis |-> Null, imageUrl |-> NoUrl,
     imageSize |-> st.imageSize, isProcessing |-> FALSE,
     isRecording |-> FALSE, step |-> "idle", error |-> NoError]

Reset ==
    /\ apiKeyReady
    /\ state' = reset(state)
    /\ Rerender(apiKeyReady, state')
    /\ hist' = Note(hist, "reset")
    /\ UNCHANGED <<apiKeyReady, keyCheck, selectPending, att, env, turns>>

setImageSize(st, size) == [st EXCEPT !.imageSize = size]

SetImageSize ==
    /\ Mounted(apiKeyReady, state)
    /\ ~isRecording
    /\ \E size \in ImageSizes : state' = setImageSize(state, size)
    /\ hist' = Note(hist, "set_image_size")
    /\ UNCHANGED <<apiKeyReady, keyCheck, selectPending, recVars, att, env, chatVars>>

\* ----------------------------------------------------------- AudioRecorder
Undefined == <<>>

NoRequest == [issued |-> FALSE, prompt |-> Undefined, size |-> "1K"]

\* the closure of one startRecording call of instance i, made while the App
\* state held imageSize size (the state its onRecordingComplete captured)
\* chunks: the array this call stored in chunksRef.current; delivered: the
\* data its MediaRecorder has delivered so far; audio: the content of the
\* Blob its onstop passed to onRecordingComplete
NewAttempt(i, size) ==
    [inst |-> i, size |-> size, pc |-> "acquiring", streamOpen |-> FALSE,
     loop |-> FALSE, isRef |-> FALSE, isFrame |-> FALSE, req |-> NoRequest,
     chunks |-> <<>>, delivered |-> <<>>, audio |-> <<>>]

\* the closure of attempt k has run to its end with outcome pc: what it
\* captured is no longer used by anything
Finished(a, k, pc) ==
    [a EXCEPT ![k].pc = pc, ![k].size = "1K", ![k].req = NoRequest]

\* the instance of attempt k is the one rendered now
Live(k) == att[k].inst = inst /\ Mounted(apiKeyReady, state)

\* cancelAnimationFrame(animationFrameRef.current) of instance i
stopVisualizer(a, i) ==
    [j \in DOMAIN a |->
        IF a[j].inst = i /\ a[j].isFrame
        THEN [a[j] EXCEPT !.loop = FALSE] ELSE a[j]]

StartRecording ==
    /\ Mounted(apiKeyReady, state)
    /\ ~isRecording \/ permissionError
    /\ permissionError' = FALSE
    /\ IF env = "ok"
       THEN /\ Len(att) < MaxAttempts
            /\ att' = Append(att, NewAttempt(inst, state.imageSize))
       ELSE att' = att
    /\ hist' = Note(hist, "start_recording")
    /\ UNCHANGED <<appVars, inst, isRecording, env, chatVars>>

IsPermissionError(name) == name \in {"NotAllowedError", "PermissionDeniedError"}

GetUserMediaRejects(k) ==
    /\ att[k].pc = "acquiring"
    /\ att' = stopVisualizer(Finished(att, k, "denied"), att[k].inst)
    /\ \E name \in {"NotAllowedError", "NotFoundError"} :
          permissionError' =
              IF Live(k) /\ IsPermissionError(name) THEN TRUE
              ELSE permissionError
    /\ hist' = Note(hist, "acquire_rejected")
    /\ UNCHANGED <<appVars, inst, isRecording, env, chatVars>>

\* the continuation of startRecording after getUserMedia returned a stream;
\* viz: canvasRef.current is set, so startVisualizer runs its first draw()
Started(a, k, viz) ==
    [j \in DOMAIN a |->
        IF j = k
        THEN [a[j] EXCEPT !.pc = "recording", !.streamOpen = TRUE,
                          !.isRef = TRUE, !.chunks = <<>>,
                          !.loop = viz, !.isFrame = viz]
        ELSE IF a[j].inst = a[k].inst
             THEN [a[j] EXCEPT !.isRef = FALSE,
                               !.isFrame = IF viz THEN FALSE ELSE @]
             ELSE a[j]]

GetUserMediaResolves(k) ==
    /\ att[k].pc = "acquiring"
    /\ att' = Started(att, k, Live(k))
    /\ isRecording' = IF Live(k) THEN TRUE ELSE isRecording
    /\ hist' = Note(hist, "acquired")
    /\ UNCHANGED <<appVars, inst, permissionError, env, chatVars>>

\* the data of the n-th dataavailable event of recorder k: size bytes
Chunk(k, n, size) == [b \in 1..size |-> [rec |-> k, n |-> n]]

\* the attempt whose array chunksRef.current of instance i holds: the last
\* start of that instance that got as far as `chunksRef.current = []`
Ref(a, i) == CHOOSE j \in DOMAIN a : a[j].inst = i /\ a[j].isRef

\* ondataavailable of recorder k with event data c
ondataavailable(a, k, c) ==
    IF Len(c) > 0
    THEN [a EXCEPT ![Ref(a, a[k].inst)].chunks = Append(@, c)]
    ELSE a

DataAvailable(k) ==
    /\ att[k].pc \in {"recording", "stopping"}
    /\ Len(att[k].delivered) < MaxChunks
    /\ \E size \in {0, 1} :
          LET c == Chunk(k, Len(att[k].delivered) + 1, size)
          IN  att' = [ondataavailable(att, k, c) EXCEPT
                         ![k].delivered = Append(@, c)]
    /\ hist' = Note(hist, "data_available")
    /\ UNCHANGED <<appVars, recVars, env, chatVars>>

stopRecording(a, k) == [a EXCEPT ![k].pc = "stopping"]

\* stopRecording that leaves isRecording as it is
StopRecording_keepsIsRecording ==
    /\ Mounted(apiKeyReady, state)
    /\ isRecording
    /\ \E k \in Attempts :
          /\ att[k].inst = inst
          /\ att[k].isRef
          /\ att[k].pc = "recording"
          /\ att' = stopRecording(att, k)
    /\ hist' = Note(hist, "stop_recording")
    /\ UNCHANGED <<appVars, recVars, env, chatVars>>

StopRecording ==
    /\ Mounted(apiKeyReady, state)
    /\ isRecording
    /\ \E k \in Attempts :
          /\ att[k].inst = inst
          /\ att[k].isRef
          /\ att[k].pc = "recording"
          /\ att' = stopRecording(att, k)
    /\ isRecording' = FALSE
    /\ hist' = Note(hist, "stop_recording")
    /\ UNCHANGED <<appVars, inst, permissionError, env, chatVars>>

\* ------------------------------------------------- handleRecordingComplete
\* the Blob object onstop of attempt k creates
BlobOf(k) == <<k>>

\* new Blob(parts): the content is the parts, one after the other
RECURSIVE Blob(_)
Blob(parts) ==
    IF parts = <<>> THEN <<>> ELSE Head(parts) \o Blob(Tail(parts))

\* handleRecordingComplete that does not pass through analyzing
handleRecordingComplete_skipsAnalyzing(st, blob) ==
    [st EXCEPT !.audioBlob = blob, !.step = "generating_image",
               !.isProcessing = TRUE, !.error = NoError]

handleRecordingComplete(st, blob) ==
    [st EXCEPT !.audioBlob = blob, !.step = "analyzing",
               !.isProcessing = TRUE, !.error = NoError]

\* onstop: the callback, then stopVisualizer, then the tracks are stopped
Stopped(a, k) ==
    stopVisualizer([a EXCEPT ![k].pc = "analyzing", ![k].streamOpen = FALSE,
                             ![k].audio = Blob(a[Ref(a, a[k].inst)].chunks)],
                   a[k].inst)

OnStop(k) ==
    /\ att[k].pc = "stopping"
    /\ state' = handleRecordingComplete(state, BlobOf(k))
    /\ att' = Stopped(att, k)
    /\ hist' = [Note(hist, "on_stop") EXCEPT !.leftIdleViaAnalyzing =
                   @ \/ (state.step = "idle" /\ state'.step = "analyzing")]
    /\ Rerender(apiKeyReady, state')
    /\ UNCHANGED <<apiKeyReady, keyCheck, selectPending, env, turns>>

Return(v) == [ok |-> TRUE, value |-> v, message |-> ""]

Throw(m) == [ok |-> FALSE, value |-> Null, message |-> m]

\* a parser that gives every key the value of the first member
LastMember_ignoresKey(ms, f) == ms[1]

\* JSON.parse: the value of a key is that of its last member
LastMember(ms, f) ==
    ms[CHOOSE i \in DOMAIN ms :
          /\ ms[i].key = f
          /\ \A j \in DOMAIN ms : ms[j].key = f => j <= i]

JSONParse(t) ==
    IF ~t.wellFormed THEN Throw(SyntaxErrorMessage)
    ELSE IF t.isNull THEN Return(Null)
    ELSE Return(Obj([f \in { t.members[i].key : i \in DOMAIN t.members } |->
                        LastMember(t.members, f).str]))

analyzeDreamAudio(resp) ==
    IF resp.empty THEN Throw(NoResponseMessage) ELSE JSONParse(resp)

\* the catch block without its fallback message
ErrorText_noFallback(m) == m

\* the catch block: error.message || "Failed to process dream. ..."
ErrorText(m) == IF m # "" THEN m ELSE DefaultErrorMessage

\* a catch block that records the error and leaves step where it was
onError_keepsStep(st, m) ==
    [st EXCEPT !.isProcessing = FALSE, !.error = ErrorText(m)]

onError(st, m) ==
    [st EXCEPT !.isProcessing = FALSE, !.step = "idle", !.error = ErrorText(m)]

onAnalysis(st, a) == [st EXCEPT !.analysis = a, !.step = "generating_image"]

\* analysis.visualPrompt
Prop(a, f) == IF f \in DOMAIN a.props THEN a.props[f] ELSE Undefined

\* the analysis call of attempt k settles with response text resp
AnalysisSettlesWith(k, resp) ==
    /\ att[k].pc = "analyzing"
    /\ LET r == analyzeDreamAudio(resp) IN
       IF ~r.ok
       THEN /\ state' = onError(state, r.message)
            /\ att' = Finished(att, k, "failed")
            /\ hist' = Consumed(Note(hist, "analysis_failed"), "analysis", resp, r)
       ELSE /\ hist' = [Consumed(Note(hist, IF r.value.kind = "null"
                                                 THEN "analysis_failed"
                                                 ELSE "analysis_ok"),
                                 "analysis", resp, r)
                           EXCEPT !.analysisSucceeded = TRUE]
            /\ IF r.value.kind = "null"
               THEN /\ state' = onError(onAnalysis(state, r.value),
                                        TypeErrorMessage)
                    /\ att' = Finished(att, k, "failed")
               ELSE /\ state' = onAnalysis(state, r.value)
                    /\ att' = [att EXCEPT
                           ![k].pc = "imaging",
                           ![k].req = [issued |-> TRUE,
                                       prompt |-> Prop(r.value, "visualPrompt"),
                                       size |-> att[k].size]]
    /\ Rerender(apiKeyReady, state')
    /\ UNCHANGED <<apiKeyReady, keyCheck, selectPending, env, turns>>

AnalysisSettles(k) == \E resp \in ResponseTexts : AnalysisSettlesWith(k, resp)

\* the analysis call of attempt k rejects with e
AnalysisRejectsWith(k, e) ==
    /\ att[k].pc = "analyzing"
    /\ state' = onError(state, e.message)
    /\ att' = Finished(att, k, "failed")
    /\ Rerender(apiKeyReady, state')
    /\ hist' = Note(hist, "analysis_failed")
    /\ UNCHANGED <<apiKeyReady, keyCheck, selectPending, env, turns>>

AnalysisRejects(k) == \E e \in Rejections : AnalysisRejectsWith(k, e)

RECURSIVE FirstInline(_)
FirstInline(parts) ==
    IF parts = <<>> THEN Throw(NoImageMessage)
    ELSE IF Head(parts).inline
         THEN Return(<<"data:image/png;base64,", Head(parts).data>>)
         ELSE FirstInline(Tail(parts))

\* a loop that runs over the parts from the last to the first
generateDreamImage_lastInline(parts) ==
    FirstInline([i \in 1..Len(parts) |-> parts[Len(parts) + 1 - i]])

generateDreamImage(parts) == FirstInline(parts)

onImage(st, url) ==
    [st EXCEPT !.imageUrl = url, !.isProcessing = FALSE, !.step = "complete"]

\* the image call of attempt k settles with the content parts parts
ImageSettlesWith(k, parts) ==
    /\ att[k].pc = "imaging"
    /\ LET r == generateDreamImage(parts) IN
       IF r.ok
       THEN /\ state' = onImage(state, r.value)
            /\ att' = Finished(att, k, "done")
            /\ hist' = Consumed(Note(hist, "image_ok"), "image", parts, r)
       ELSE /\ state' = onError(state, r.message)
            /\ att' = Finished(att, k, "failed")
            /\ hist' = Consumed(Note(hist, "image_failed"), "image", parts, r)
    /\ Rerender(apiKeyReady, state')
    /\ UNCHANGED <<apiKeyReady, keyCheck, selectPending, env, turns>>

ImageSettles(k) == \E parts \in ImageResponses : ImageSettlesWith(k, parts)

\* the image call of attempt k rejects with e
ImageRejectsWith(k, e) ==
    /\ att[k].pc = "imaging"
    /\ state' = onError(state, e.message)
    /\ att' = Finished(att, k, "failed")
    /\ Rerender(apiKeyReady, state')
    /\ hist' = Note(hist, "image_failed")
    /\ UNCHANGED <<apiKeyReady, keyCheck, selectPending, env, turns>>

ImageRejects(k) == \E e \in Rejections : ImageRejectsWith(k, e)

\* startRecording of attempt k has its stream and then fails: the
\* MediaRecorder constructor throws (assigned false: mediaRecorderRef keeps
\* what it held) or start() throws (assigned true). The stream stays open:
\* the catch block never stops its tracks
StartFailed(a, k, assigned) ==
    [j \in DOMAIN a |->
        IF j = k
        THEN [Finished(a, k, "start_failed")[k] EXCEPT
                 !.streamOpen = TRUE, !.isRef = assigned]
        ELSE IF assigned /\ a[j].inst = a[k].inst
             THEN [a[j] EXCEPT !.isRef = FALSE]
             ELSE a[j]]

\* the catch block of startRecording for an error of the MediaRecorder
\* (NotSupportedError, InvalidStateError): stopVisualizer, then an alert
MediaRecorderThrows(k) ==
    /\ att[k].pc = "acquiring"
    /\ \E assigned \in BOOLEAN :
          att' = stopVisualizer(StartFailed(att, k, assigned), att[k].inst)
    /\ hist' = Note(hist, "start_failed")
    /\ UNCHANGED <<appVars, recVars, env, chatVars>>

\* a completion callback that raises: the rest of onstop is skipped
OnStopCallbackThrows(k) ==
    /\ att[k].pc = "stopping"
    /\ att' = [att EXCEPT ![k].pc = "callback_threw"]
    /\ hist' = Note(hist, "callback_threw")
    /\ UNCHANGED <<appVars, recVars, env, chatVars>>

\* ------------------------------------------------------------ ChatInterface
Blank == " "

\* a text is a sequence of characters or words.
\* what the user can have typed: nothing, a blank, a question
Inputs == { <<>>, <<Blank>>, <<"q">> }

RECURSIVE TrimStart(_)
TrimStart(s) ==
    IF s # <<>> /\ Head(s) = Blank THEN TrimStart(Tail(s)) ELSE s

RECURSIVE TrimEnd(_)
TrimEnd(s) ==
    IF s # <<>> /\ s[Len(s)] = Blank THEN TrimEnd(SubSeq(s, 1, Len(s) - 1))
    ELSE s

Trim(s) == TrimEnd(TrimStart(s))

FallbackReply == <<"I couldn't generate a response.">>

Apology ==
    <<"I'm sorry, I'm having trouble connecting to the dream realm right now.">>

\* response.text of a chat turn: absent, empty, or a reply
AbsentText == <<"<undefined>">>

ChatTexts == { AbsentText, <<>>, <<"r">> }

Falsy(v) == v \in { AbsentText, <<>> }

\* sendMessage that hands on whatever text the response has
sendMessage_noFallback(text) == Return(text)

\* DreamChatSession.sendMessage: response.text || "I couldn't ..."
sendMessage(text) == IF Falsy(text) THEN Return(FallbackReply) ELSE Return(text)

Message(role, text) == [role |-> role, text |-> text]

\* the session of turn t is the one of the rendered ChatInterface
LiveTurn(t) ==
    turns[t].session = chat.session /\ ChatMounted(apiKeyReady, state)

SetInput ==
    /\ ChatMounted(apiKeyReady, state)
    /\ \E text \in Inputs : chat' = [chat EXCEPT !.input = text]
    /\ hist' = Note(hist, "set_input")
    /\ UNCHANGED <<appVars, recVars, att, env, turns>>

\* a guard that does not look at isLoading
CanSend_ignoresLoading(c) == Trim(c.input) # <<>>

\* the guard of handleSend: a session exists whenever the component is
\* rendered, its effect having run
CanSend(c) == Trim(c.input) # <<>> /\ ~c.isLoading

\* the Enter key, or the button (disabled exactly when CanSend is false)
HandleSend ==
    /\ ChatMounted(apiKeyReady, state)
    /\ IF CanSend(chat)
       THEN /\ Len(turns) < MaxTurns
            /\ chat' = [chat EXCEPT
                   !.messages = Append(@, Message("user", chat.input)),
                   !.input = <<>>,
                   !.isLoading = TRUE]
            /\ turns' = Append(turns, [session |-> chat.session,
                                       pc |-> "pending"])
            /\ hist' = Note(hist, "send")
       ELSE /\ UNCHANGED chatVars
            /\ hist' = Note(hist, "send_ignored")
    /\ UNCHANGED <<appVars, recVars, att, env>>

\* a try block that shows the reply alone
onReply_replaces(c, text) ==
    [c EXCEPT !.messages = <<Message("model", text)>>,
              !.isLoading = FALSE]

\* a try block without the finally that ends the loading state
onReply_keepsLoading(c, text) ==
    [c EXCEPT !.messages = Append(@, Message("model", text))]

\* the try block after the await, then finally
onReply(c, text) ==
    [c EXCEPT !.messages = Append(@, Message("model", text)),
              !.isLoading = FALSE]

\* a catch block that shows the apology alone
onChatError_dropsHistory(c) ==
    [c EXCEPT !.messages = <<Message("model", Apology)>>,
              !.isLoading = FALSE]

\* the catch block, then finally
onChatError(c) ==
    [c EXCEPT !.messages = Append(@, Message("model", Apology)),
              !.isLoading = FALSE]

ChatReplies(t) ==
    /\ turns[t].pc = "pending"
    /\ \E text \in ChatTexts :
          LET r == sendMessage(text) IN
          /\ chat' = IF LiveTurn(t) THEN onReply(chat, r.value) ELSE chat
          /\ hist' = Consumed(Note(hist, "chat_replied"), "chat", text, r)
    /\ turns' = [turns EXCEPT ![t].pc = "replied"]
    /\ UNCHANGED <<appVars, recVars, att, env>>

ChatRejects(t) ==
    /\ turns[t].pc = "pending"
    /\ chat' = IF LiveTurn(t) THEN onChatError(chat) ELSE chat
    /\ turns' = [turns EXCEPT ![t].pc = "failed"]
    /\ hist' = Note(hist, "chat_failed")
    /\ UNCHANGED <<appVars, recVars, att, env>>

Next ==
    \/ CheckKeySettles
    \/ CheckKeyRejects
    \/ HandleApiKeySelection
    \/ SelectKeyResolves
    \/ SelectKeyRejects
    \/ Reset
    \/ SetImageSize
    \/ StartRecording
    \/ \E k \in Attempts : GetUserMediaRejects(k)
    \/ \E k \in Attempts : GetUserMediaResolves(k)
    \/ StopRecording
    \/ \E k \in Attempts : OnStop(k)
    \/ \E k \in Attempts : AnalysisSettles(k)
    \/ \E k \in Attempts : AnalysisRejects(k)
    \/ \E k \in Attempts : ImageSettles(k)
    \/ \E k \in Attempts : ImageRejects(k)

Spec == Init /\ [][Next]_vars

\* every analysis call and every image call that was issued settles: it
\* resolves or rejects
\* the ways the analysis call and the image call of attempt k end, one of
\* each kind: a conforming analysis, the literal null, no text, a rejection;
\* an image, no image, a rejection
AnalysisEnds(k) ==
    /\ k \in Attempts
    /\ \/ \E resp \in {FullText("a"), NullText, NoText} :
             AnalysisSettlesWith(k, resp)
       \/ AnalysisRejectsWith(k, [message |-> ""])

ImageEnds(k) ==
    /\ k \in Attempts
    /\ \/ \E parts \in {<<InlinePart("A")>>, <<TextPart>>} :
             ImageSettlesWith(k, parts)
       \/ ImageRejectsWith(k, [message |-> ""])

\* the application (default resolution) with every issued call settling
NextLive ==
    \/ CheckKeySettles
    \/ CheckKeyRejects
    \/ HandleApiKeySelection
    \/ SelectKeyResolves
    \/ SelectKeyRejects
    \/ Reset
    \/ StartRecording
    \/ \E k \in Attempts : GetUserMediaRejects(k)
    \/ \E k \in Attempts : GetUserMediaResolves(k)
    \/ StopRecording
    \/ \E k \in Attempts : OnStop(k)
    \/ \E k \in Attempts : AnalysisEnds(k)
    \/ \E k \in Attempts : ImageEnds(k)

CallsSettle ==
    \A k \in 1..MaxAttempts :
        WF_vars(AnalysisEnds(k)) /\ WF_vars(ImageEnds(k))

SpecLive == Init /\ [][NextLive]_vars /\ CallsSettle

\* the browser runs the task that stop() queued: the stop event of a
\* MediaRecorder that was stopped is delivered
StopDelivered ==
    \A k \in 1..MaxAttempts : WF_vars(k \in Attempts /\ OnStop(k))

SpecStop == Init /\ [][NextLive]_vars /\ StopDelivered

\* the AudioRecorder in the App with collaborators that can fail (an
\* onRecordingComplete prop that raises, a MediaRecorder that cannot be
\* created or started), run against a service whose analysis and image calls
\* have one successful and one failing outcome each
NextRecorder ==
    \/ CheckKeySettles
    \/ CheckKeyRejects
    \/ HandleApiKeySelection
    \/ SelectKeyResolves
    \/ SelectKeyRejects
    \/ Reset
    \/ SetImageSize
    \/ StartRecording
    \/ \E k \in Attempts : GetUserMediaRejects(k)
    \/ \E k \in Attempts : GetUserMediaResolves(k)
    \/ \E k \in Attempts : MediaRecorderThrows(k)
    \/ StopRecording
    \/ \E k \in Attempts : OnStop(k)
    \/ \E k \in Attempts : OnStopCallbackThrows(k)
    \/ \E k \in Attempts : AnalysisSettlesWith(k, FullText("a"))
    \/ \E k \in Attempts : AnalysisRejectsWith(k, [message |-> ""])
    \/ \E k \in Attempts : ImageSettlesWith(k, <<InlinePart("A")>>)
    \/ \E k \in Attempts : ImageRejectsWith(k, [message |-> ""])

SpecRecorder == Init /\ [][NextRecorder]_vars

\* the application with the chat of its result view, run against a service
\* whose analysis and image calls have one successful and one failing outcome
\* each, a microphone that is granted, and the default resolution
NextChat ==
    \/ CheckKeySettles
    \/ CheckKeyRejects
    \/ HandleApiKeySelection
    \/ SelectKeyResolves
    \/ SelectKeyRejects
    \/ Reset
    \/ StartRecording
    \/ \E k \in Attempts : GetUserMediaResolves(k)
    \/ StopRecording
    \/ \E k \in Attempts : OnStop(k)
    \/ \E k \in Attempts : AnalysisSettlesWith(k, FullText("a"))
    \/ \E k \in Attempts : AnalysisRejectsWith(k, [message |-> ""])
    \/ \E k \in Attempts : ImageSettlesWith(k, <<InlinePart("A")>>)
    \/ \E k \in Attempts : ImageRejectsWith(k, [message |-> ""])
    \/ SetInput
    \/ HandleSend
    \/ \E t \in Turns : ChatReplies(t)
    \/ \E t \in Turns : ChatRejects(t)

SpecChat == Init /\ [][NextChat]_vars

\* the AudioRecorder in the App with a MediaRecorder that delivers its data
\* in up to MaxChunks events, empty or not, run with a microphone that is
\* granted, the default resolution, and a service whose calls fail
NextChunks ==
    \/ CheckKeySettles
    \/ Reset
    \/ StartRecording
    \/ \E k \in Attempts : GetUserMediaResolves(k)
    \/ \E k \in Attempts : DataAvailable(k)
    \/ StopRecording
    \/ \E k \in Attempts : OnStop(k)
    \/ \E k \in Attempts : AnalysisRejectsWith(k, [message |-> ""])

SpecChunks == Init /\ [][NextChunks]_vars

\* ================================================================ claims
InFlight(k) == att[k].pc \in {"analyzing", "imaging"}

\* C1: in every reachable state, analysis is non-null iff step is
\* generating_image or complete, and imageUrl is non-null iff step is complete
C1_AnalysisAndImageFollowStep ==
    /\ state.analysis # Null <=> state.step \in {"generating_image", "complete"}
    /\ state.imageUrl # NoUrl <=> state.step = "complete"

\* C2: every change of step is idle->analyzing, analyzing->generating_image,
\* generating_image->complete, or a change to idle
C2_LinearStepChanges ==
    [][state'.step # state.step =>
          \/ state'.step = "idle"
          \/ <<state.step, state'.step>> \in
                { <<"idle", "analyzing">>,
                  <<"analyzing", "generating_image">>,
                  <<"generating_image", "complete">> }]_vars

\* C3: the analysis or image calls of two different recordings are never
\* pending at the same time
C3_OnePipelineInFlight ==
    Cardinality({ k \in Attempts : InFlight(k) }) <= 1

\* C4: once the stop event of a recorder has been handled, the tracks of its
\* stream are stopped and its visualizer frame loop is cancelled, whatever the
\* completion callback did
C4_StopReleasesStreamAndLoop ==
    [][\A k \in Attempts :
          (att[k].pc = "stopping" /\ att'[k].pc # "stopping")
              => (~att'[k].streamOpen /\ ~att'[k].loop)]_vars

\* a recorder that the rendered component's stopRecording will stop, or whose
\* stop event is already queued
Stoppable(k) ==
    \/ att[k].pc = "stopping"
    \/ att[k].pc = "recording" /\ Live(k) /\ att[k].isRef /\ isRecording

\* C5: at most one microphone stream is open at any time, and every open
\* stream has a recorder that stopRecording can still stop
C5_OneStreamAlwaysStoppable ==
    LET open == { k \in Attempts : att[k].streamOpen } IN
    /\ Cardinality(open) <= 1
    /\ \A k \in open : Stoppable(k)

\* C6: reset invoked at step complete gives step idle, no analysis, no image,
\* no error, and the imageSize held before
C6_ResetFromComplete ==
    [][(Reset /\ state.step = "complete") =>
          /\ state'.step = "idle"
          /\ state'.analysis = Null
          /\ state'.imageUrl = NoUrl
          /\ state'.error = NoError
          /\ state'.imageSize = state.imageSize]_vars

C6_Witness ==
    /\ hist.last = "reset"
    /\ hist.from = "complete"
    /\ state.imageSize = "4K"

\* C7: whenever the analysis call or the image call of a recording fails, step
\* becomes idle, isProcessing false and error a non-empty message
C7_FailureUnwindsToIdle ==
    [][\A k \in Attempts :
          (InFlight(k) /\ att'[k].pc = "failed") =>
              /\ state'.step = "idle"
              /\ ~state'.isProcessing
              /\ state'.error \notin {NoError, ""}]_vars

C7_Witness ==
    /\ hist.last = "analysis_failed"
    /\ state.error = NoResponseMessage
    /\ state.step = "idle"

\* C8: a non-null analysis is held only after step went from idle to analyzing
\* and an analysis call succeeded; a non-null imageUrl only after an analysis
\* call succeeded
C8_AnalysisOnlyAfterAnalyzing ==
    /\ state.analysis # Null =>
          hist.leftIdleViaAnalyzing /\ hist.analysisSucceeded
    /\ state.imageUrl # NoUrl => hist.analysisSucceeded

C8_Witness ==
    /\ state.step = "complete"
    /\ state.analysis # Null
    /\ state.imageUrl # NoUrl

\* C9: every analysis analyzeDreamAudio returned, and so every analysis held
\* in the application state, has all four DreamAnalysis fields
C9_AnalysisHasAllFields ==
    state.analysis # Null => DOMAIN state.analysis.props = Fields

\* C10: the resolution buttons cannot change imageSize while a recorder is
\* capturing, and the resolution of every image request is the imageSize the
\* application state holds when the request is issued
C10_ResolutionOfRequest ==
    [][/\ (\E k \in Attempts : att[k].pc = "recording")
              => state'.imageSize = state.imageSize
       /\ \A k \in Attempts :
              (att[k].pc = "analyzing" /\ att'[k].pc = "imaging")
                  => att'[k].req.size = state'.imageSize]_vars

\* C11: whenever the chat service answers with an empty or absent text,
\* sendMessage returns "I couldn't generate a response." and does not throw;
\* a non-empty text it returns unchanged
C11_SendMessageFallback ==
    hist.last = "chat_replied" =>
        /\ hist.output.result.ok
        /\ hist.output.result.value =
              IF hist.input.response \in {AbsentText, <<>>}
              THEN <<"I couldn't generate a response.">>
              ELSE hist.input.response

C11_Witness ==
    /\ hist.last = "chat_replied"
    /\ hist.input.response = <<>>
    /\ chat.messages # <<>>
    /\ chat.messages[Len(chat.messages)] =
          Message("model", <<"I couldn't generate a response.">>)

\* C12: when a chat turn fails, handleSend appends exactly one model-role
\* apology, keeps every earlier message and the chat session, sets isLoading
\* to false, and leaves the application state as it is: at step complete,
\* with the error it held
C12_ChatFailureIsLocal ==
    [][\A t \in Turns :
          (turns[t].pc = "pending" /\ turns'[t].pc = "failed" /\ LiveTurn(t))
              => /\ chat'.messages =
                       Append(chat.messages, Message("model", Apology))
                 /\ chat'.session = chat.session
                 /\ ~chat'.isLoading
                 /\ state' = state
                 /\ state'.step = "complete"
                 /\ state'.error = state.error]_vars

C12_Witness ==
    /\ hist.last = "chat_failed"
    /\ Len(chat.messages) = 4
    /\ chat.messages[4] = Message("model", Apology)
    /\ chat.messages[2].text = <<"r">>
    /\ ~chat.isLoading
    /\ state.step = "complete"

PendingTurns == { t \in Turns : turns[t].pc = "pending" }

\* C13 as stated: at most one chat turn is in flight at any time
C13_OneChatTurnInFlight == Cardinality(PendingTurns) <= 1

\* C13 amended: at most one chat turn of a chat session is in flight at any
\* time, and while the turn of the rendered chat is pending isLoading is
\* true, so a further send action issues no sendMessage call
C13_OneChatTurnPerSession ==
    /\ \A t, u \in PendingTurns : turns[t].session = turns[u].session => t = u
    /\ \A t \in PendingTurns : LiveTurn(t) => chat.isLoading /\ ~CanSend(chat)

C13_Witness ==
    /\ hist.last = "send_ignored"
    /\ Trim(chat.input) # <<>>
    /\ \E t \in PendingTurns : LiveTurn(t)
    /\ Cardinality(PendingTurns) = 1

\* C14: a draw frame of the visualizer is pending only while the microphone
\* stream it draws is open and step is idle, the recorder view being shown
C14_FramesOnlyWhileCapturing ==
    \A k \in Attempts :
        att[k].loop => (att[k].streamOpen /\ state.step = "idle")

\* C15: when startRecording fails after getUserMedia returned a stream (the
\* MediaRecorder constructor or start() throws), the stream is released, the
\* visualizer is halted and isRecording stays false
C15_FailedStartReleasesStream ==
    [][\A k \in Attempts :
          (att[k].pc = "acquiring" /\ att'[k].pc = "start_failed")
              => /\ ~att'[k].streamOpen
                 /\ ~att'[k].loop
                 /\ (Live(k) => isRecording' = isRecording)]_vars

Busy == state.step \in {"analyzing", "generating_image"}

Settled ==
    \/ state.step = "idle"
    \/ /\ state.step = "complete"
       /\ state.analysis # Null
       /\ state.imageUrl # NoUrl

\* C16: if every issued call settles, then from every state in which step is
\* analyzing or generating_image the application reaches step idle, or step
\* complete with an analysis and an image
C16_PipelineTerminates == Busy ~> Settled

C16_Witness ==
    /\ hist.last = "image_ok"
    /\ hist.from = "generating_image"
    /\ Settled
    /\ state.step = "complete"

IsPrefix(s, t) == Len(s) <= Len(t) /\ SubSeq(t, 1, Len(s)) = s

\* C17: while a chat stays rendered every step, those of handleSend
\* included, leaves the previous message list a prefix of the new one; the
\* chat rendered for a new result, after a reset in particular, starts with
\* an empty list
C17_MessagesAppendOnly ==
    [][/\ (ChatMounted(apiKeyReady, state) /\ ChatMounted(apiKeyReady', state'))
              => IsPrefix(chat.messages, chat'.messages)
       /\ (~ChatMounted(apiKeyReady, state) /\ ChatMounted(apiKeyReady', state'))
              => chat'.messages = <<>>
       /\ hist'.last = "reset" => chat'.messages = <<>>]_vars

C17_Witness ==
    /\ hist.last = "chat_replied"
    /\ chat.session = 2
    /\ Len(chat.messages) = 2
    /\ Len(turns) = 2
    /\ turns[1].session = 1
    /\ turns[1].pc = "replied"
    /\ Len(att) = 2
    /\ att[1].pc = "done"
    /\ att[2].pc = "done"
    /\ att[2].inst # att[1].inst
    /\ state.audioBlob = BlobOf(2)

\* C18: generateDreamImage returns the image reference built from the first
\* content part, in order, that carries an inline payload, and fails with
\* "No image generated" exactly when no part carries one
C18_FirstInlinePart ==
    hist.last \in {"image_ok", "image_failed"} /\ hist.input.kind = "image" =>
        LET parts == hist.input.response
            r == hist.output.result
            inline == { i \in DOMAIN parts : parts[i].inline }
        IN  IF inline = {}
            THEN ~r.ok /\ r.message = "No image generated"
            ELSE /\ r.ok
                 /\ \E i \in inline :
                       /\ \A j \in inline : i <= j
                       /\ r.value = <<"data:image/png;base64,", parts[i].data>>
                 /\ state.imageUrl = r.value

C18_Witness ==
    /\ hist.last = "image_ok"
    /\ hist.input.response = <<InlinePart("A"), InlinePart("B")>>
    /\ state.imageUrl = <<"data:image/png;base64,", "A">>
    /\ state.step = "complete"

\* C19: a failed microphone acquisition (getUserMedia rejects, or the browser
\* is unsupported or the context insecure) leaves the application state
\* unchanged with step idle and leaves isRecording false; every later
\* startRecording clears the permission-error flag
C19_AcquisitionFailureIsLocal ==
    [][/\ \A k \in Attempts :
              (att[k].pc = "acquiring" /\ att'[k].pc = "denied")
                  => /\ state' = state
                     /\ state'.step = "idle"
                     /\ ~isRecording'
       /\ (hist'.last = "start_recording" /\ env # "ok")
              => /\ state' = state
                 /\ state'.step = "idle"
                 /\ ~isRecording'
       /\ hist'.last = "start_recording" => ~permissionError']_vars

\* a response text that is a JSON object with exactly the four members of
\* the responseSchema
Conforming(t) ==
    /\ ~t.empty
    /\ t.wellFormed
    /\ ~t.isNull
    /\ Len(t.members) = Cardinality(Fields)
    /\ { t.members[i].key : i \in DOMAIN t.members } = Fields

\* C20: when the service returns non-empty schema-conforming JSON,
\* analyzeDreamAudio returns an analysis whose four fields are exactly the
\* four strings of that content; the analysis stored in the application state
\* and the visual description passed to generateDreamImage are those strings
C20_AnalysisIsTheResponse ==
    [][\A k \in Attempts :
          (/\ att[k].pc = "analyzing"
           /\ att'[k].pc # "analyzing"
           /\ hist'.input.kind = "analysis"
           /\ Conforming(hist'.input.response))
              => LET ms == hist'.input.response.members
                     r == hist'.output.result
                 IN  /\ r.ok
                     /\ DOMAIN r.value.props = Fields
                     /\ \A i \in DOMAIN ms :
                           r.value.props[ms[i].key] = ms[i].str
                     /\ state'.analysis = r.value
                     /\ att'[k].pc = "imaging"
                     /\ att'[k].req.issued
                     /\ \A i \in DOMAIN ms :
                           ms[i].key = "visualPrompt"
                               => att'[k].req.prompt = ms[i].str]_vars

C20_Witness ==
    /\ hist.last = "analysis_ok"
    /\ hist.input.response = FullText("b")
    /\ state.analysis = Obj(FullProps("b"))
    /\ state.step = "generating_image"
    /\ \E k \in Attempts :
          /\ att[k].pc = "imaging"
          /\ att[k].req.prompt = StringOf("visualPrompt", "b")

\* C21: apiKeyReady becomes true, and with it the recorder is shown and a
\* recording can start, only when the credential check reports a credential
\* or a credential selection completes without error; a selection that
\* fails leaves apiKeyReady false, so the connect action stays shown
C21_KeyGate ==
    [][/\ (~apiKeyReady /\ apiKeyReady')
              => \/ keyCheck = "pending" /\ keyCheck' = "done"
                 \/ hist'.last = "select_key_ok"
       /\ (Mounted(apiKeyReady', state') \/ Len(att') > Len(att))
              => apiKeyReady'
       /\ Len(att') > Len(att) => apiKeyReady
       /\ (hist'.last \in {"select_key_rejected", "check_key_rejected"}
              /\ ~apiKeyReady) => ~apiKeyReady']_vars

C21_Witness ==
    /\ hist.last = "select_key_rejected"
    /\ ~apiKeyReady
    /\ keyCheck = "done"
    /\ att = <<>>

\* the non-empty ones of the chunks cs, in their order
NonEmpty(cs) == SelectSeq(cs, LAMBDA c : Len(c) > 0)

\* C22: the audio object onstop passes to the completion callback is the
\* concatenation, in arrival order, of exactly the non-empty chunks that
\* were delivered for that recording since its start
C22_AudioIsOwnChunks ==
    [][\A k \in Attempts :
           (att[k].pc = "stopping" /\ att'[k].pc = "analyzing")
               => att'[k].audio = Blob(NonEmpty(att[k].delivered))]_vars

\* the handlers that consume the result of an analysis or image call
SettleOps == {"analysis_ok", "analysis_failed", "image_ok", "image_failed"}

\* C23: the result of an analysis or image call that was issued before a
\* reset changes none of step, analysis, imageUrl and error; stated for the
\* result that arrives right after the reset, when the call it belongs to
\* can only have been issued before it
C23_ResetDiscardsPendingResults ==
    [][(hist.last = "reset" /\ hist'.last \in SettleOps)
          => /\ state'.step = state.step
             /\ state'.analysis = state.analysis
             /\ state'.imageUrl = state.imageUrl
             /\ state'.error = state.error]_vars

\* C24: whenever step is complete, analysis and imageUrl are both non-null,
\* so the guard of the result view holds and the screen is not blank
C24_CompleteHasResult ==
    state.step = "complete" => state.analysis # Null /\ state.imageUrl # NoUrl

\* C25: isProcessing is true exactly when step is analyzing or
\* generating_image
C25_ProcessingFollowsStep ==
    state.isProcessing <=> state.step \in {"analyzing", "generating_image"}

\* C26: error is non-null only when step is idle
C26_ErrorOnlyAtIdle ==
    state.error # NoError => state.step = "idle"

\* onstop of attempt k has run: its pipeline is under way or over
CallbackInvoked(k) == att[k].pc \in {"analyzing", "imaging", "done", "failed"}

\* a stop click stops one recorder that is recording, an on_stop step is
\* the stop event of one recorder that was stopping
StopSteps ==
    /\ hist'.last = "stop_recording"
           => \E k \in Attempts :
                 /\ att[k].pc = "recording" /\ att'[k].pc = "stopping"
                 /\ \A j \in Attempts \ {k} : att'[j] = att[j]
    /\ hist'.last = "on_stop"
           => \E k \in Attempts :
                 /\ att[k].pc = "stopping" /\ att'[k].pc = "analyzing"
                 /\ \A j \in Attempts \ {k} : att'[j].pc = att[j].pc

\* attempt k is stopped only by a stop click made while isRecording is true,
\* which leaves isRecording false; its callback is invoked only by its stop
\* event, and not again after that
StopsOnce(k) ==
    /\ (att[k].pc # "stopping" /\ att'[k].pc = "stopping")
           => /\ hist'.last = "stop_recording"
              /\ isRecording /\ ~isRecording'
              /\ att[k].pc = "recording"
    /\ (~CallbackInvoked(k) /\ CallbackInvoked(k)')
           => /\ hist'.last = "on_stop"
              /\ att[k].pc = "stopping"
              /\ att'[k].pc = "analyzing"
    /\ CallbackInvoked(k) => CallbackInvoked(k)'

\* C27: a recording invokes onRecordingComplete once, when it is stopped.
\* Only a stop click made while isRecording is true stops a recorder, it
\* stops one that is recording and leaves isRecording false, so that a
\* further click stops nothing; the stop event of a stopped recorder invokes
\* the callback, and a recorder whose callback was invoked is never
\* recording or stopping again
C27_CallbackOncePerStop ==
    /\ [][StopSteps /\ \A k \in Attempts : StopsOnce(k)]_vars
    /\ \A k \in 1..MaxAttempts :
           (k \in Attempts /\ att[k].pc = "stopping")
               ~> (k \in Attempts /\ CallbackInvoked(k))

C27_Witness ==
    /\ hist.last = "on_stop"
    /\ ~isRecording
    /\ \E k \in Attempts : att[k].pc = "analyzing" /\ att[k].inst = inst
    /\ \E j \in Attempts : att[j].pc = "recording"

\* the number of messages of ms with the given role
CountRole(ms, role) == Cardinality({ i \in DOMAIN ms : ms[i].role = role })

\* user, model, user, model, ... starting with a user message
Alternates(ms) ==
    \A i \in DOMAIN ms : ms[i].role = IF i % 2 = 1 THEN "user" ELSE "model"

\* C28: the message list of the chat alternates user, model, ... starting
\* with a user message; with no reply pending (isLoading false) it has as
\* many user as model messages, and while a reply is pending it has exactly
\* one more user message than model messages
C28_MessagesAlternate ==
    /\ Alternates(chat.messages)
    /\ CountRole(chat.messages, "user") =
           CountRole(chat.messages, "model") + IF chat.isLoading THEN 1 ELSE 0

C28_Witness ==
    /\ chat.isLoading
    /\ Len(chat.messages) = 3
    /\ chat.messages[2].text = Apology
    /\ \E t \in Turns : LiveTurn(t) /\ turns[t].pc = "pending"

====
